---- MODULE Spec2Model ----
(***************************************************************************)
(* Command palette (crates/command_palette) and runnables scheduling       *)
(* (crates/runnables_ui) as a state machine.                               *)
(*                                                                         *)
(* Strings are sequences of one-character strings, so that the character   *)
(* level functions (humanize_action_name, the namespace split, the sort    *)
(* by display name, the fuzzy subsequence match) are computed and not      *)
(* assumed.  Vec positions are 0-based as in the source; TLA+ sequences    *)
(* are 1-based, so Rust index i is TLA+ index i + 1.                       *)
(***************************************************************************)
EXTENDS Integers, Sequences, FiniteSets, TLC

VARIABLES
    hit_counts,             \* global HitCounts: display name -> count (HashMap)
    filter,                 \* global CommandPaletteFilter.hidden_namespaces
    interceptor,            \* global CommandPaletteInterceptor slot ("none" = not set)
    release_channel,        \* global ReleaseChannel ("none" = not set)
    focused,                \* the window's focused handle
    picker,                 \* identity of the current palette/picker view (0 = never opened)
    alive,                  \* the picker view has not been released
    current_query,          \* the text of the picker's query editor
    all_commands,           \* CommandPaletteDelegate.all_commands
    commands,               \* CommandPaletteDelegate.commands
    matches,                \* CommandPaletteDelegate.matches
    selected_ix,            \* CommandPaletteDelegate.selected_ix
    previous_focus_handle,  \* CommandPaletteDelegate.previous_focus_handle
    tasks,                  \* the tasks spawned by update_matches, in issue order
    applied,                \* history: the inputs of the pass whose lists the delegate holds
    effects,                \* what the most recent handler emitted, logged or dispatched
    h_name,                 \* input of humanize_action_name (function check)
    h_result,               \* its result
    worktrees,              \* runnables_ui: project.worktrees(), in order
    active_entry,           \* runnables_ui: project.active_entry() ("none" = None)
    last_scheduled_runnable,  \* runnables_ui: inventory.last_scheduled_runnable
    r_effects               \* runnables_ui: what the most recent handler logged, ran, emitted

pvars == <<hit_counts, filter, interceptor, release_channel, focused, picker, alive,
           current_query,
           all_commands, commands, matches, selected_ix, previous_focus_handle,
           tasks, applied, effects>>
rvars == <<worktrees, active_entry, last_scheduled_runnable, r_effects>>
hvars == <<h_name, h_result, rvars>>
vars == <<pvars, hvars>>

----------------------------------------------------------------------------
(* Bounds *)

MaxTasks == 2          \* update_matches calls in one run
MaxActivations == 1    \* palette activations in one run
MaxHits == 1           \* confirmed selections in one run
MaxNameLen == 4        \* length of the strings humanize_action_name is checked on
MaxWorktrees == 2      \* worktrees of the project runnables are scheduled in

----------------------------------------------------------------------------
(* Characters and strings *)

UpperChars == {"A", "B", "D", "G", "T"}

\* char::is_uppercase
is_uppercase(c) == c \in UpperChars

\* char::to_lowercase (one char for every letter of the alphabet used here)
to_lowercase(c) ==
    CASE c = "A" -> "a"
      [] c = "B" -> "b"
      [] c = "D" -> "d"
      [] c = "G" -> "g"
      [] c = "T" -> "t"
      [] OTHER -> c

\* The byte value of a character: String's Ord compares bytes.
CharCode(c) ==
    CASE c = " " -> 32
      [] c = "!" -> 33
      [] c = "/" -> 47
      [] c = ":" -> 58
      [] c = "A" -> 65
      [] c = "B" -> 66
      [] c = "D" -> 68
      [] c = "G" -> 71
      [] c = "_" -> 95
      [] c = "a" -> 97
      [] c = "b" -> 98
      [] c = "d" -> 100
      [] c = "e" -> 101
      [] c = "g" -> 103
      [] c = "l" -> 108
      [] c = "w" -> 119
      [] c = "z" -> 122
      [] OTHER -> 127

\* str::ends_with(char)
ends_with(s, c) == Len(s) > 0 /\ s[Len(s)] = c

\* str::starts_with(prefix)
starts_with(s, p) == Len(s) >= Len(p) /\ SubSeq(s, 1, Len(p)) = p

\* String's Ord: lexicographic on bytes, a proper prefix is smaller.
RECURSIVE StrLess(_, _)
StrLess(a, b) ==
    IF b = <<>> THEN FALSE
    ELSE IF a = <<>> THEN TRUE
    ELSE IF a[1] # b[1] THEN CharCode(a[1]) < CharCode(b[1])
    ELSE StrLess(Tail(a), Tail(b))

StrLeq(a, b) == a = b \/ StrLess(a, b)

Range(s) == {s[i] : i \in 1..Len(s)}

----------------------------------------------------------------------------
(* humanize_action_name *)

\* One iteration of the loop over name.chars(): result after pushing for char.
humanize_push_always_space(result, char) ==
    IF char = ":"
    THEN IF ends_with(result, ":") THEN Append(result, " ") ELSE Append(result, ":")
    ELSE IF char = "_" THEN Append(result, " ")
    ELSE IF is_uppercase(char)
         THEN Append(Append(result, " "), to_lowercase(char))
    ELSE Append(result, char)

humanize_push(result, char) ==
    IF char = ":"
    THEN IF ends_with(result, ":") THEN Append(result, " ") ELSE Append(result, ":")
    ELSE IF char = "_" THEN Append(result, " ")
    ELSE IF is_uppercase(char)
         THEN Append(IF ~ends_with(result, " ") THEN Append(result, " ") ELSE result,
                     to_lowercase(char))
    ELSE Append(result, char)

RECURSIVE humanize_from(_, _)
humanize_from(result, rest) ==
    IF rest = <<>> THEN result
    ELSE humanize_from(humanize_push(result, rest[1]), Tail(rest))

humanize_action_name(name) == humanize_from(<<>>, name)

----------------------------------------------------------------------------
(* The collaborators the palette reads: actions, the catalog, the interceptor, *)
(* the release channel's link parser and the fuzzy matcher.                    *)

\* A gpui Action value: its type identity, its raw namespaced name, its payload.
Act(type, name, url) == [type |-> type, name |-> name, url |-> url]

Backspace == Act("Backspace", <<"e", ":", ":", "B">>, <<>>)
GoToDefinition == Act("GoToDefinition", <<"e", ":", ":", "G", "d">>, <<>>)
Deploy == Act("Deploy", <<"g", "_", "l", ":", ":", "D">>, <<>>)
ToggleLine == Act("go_to_line::Toggle", <<"g", "_", "l", ":", ":", "A">>, <<>>)

\* OpenZedUrl { url }
OpenZedUrl(url) == Act("OpenZedUrl", <<"z", ":", ":", "A">>, url)

\* cx.available_actions(): one default-built action per available action type.
available_actions == <<Deploy, GoToDefinition, Backspace>>

ZedLink == <<"z", "e", "d", ":", "/", "/">>

\* The queries typed into the palette.
Queries == {<<>>, <<"e">>, ZedLink}

\* release_channel::parse_zed_link(query).is_some()
parse_zed_link(query) == starts_with(query, ZedLink)

\* Option<CommandInterceptResult>
NoIntercept == [some |-> FALSE, action |-> Act("", <<>>, <<>>), string |-> <<>>,
                positions |-> <<>>]
SomeIntercept(action, string, positions) ==
    [some |-> TRUE, action |-> action, string |-> string, positions |-> positions]

\* The interceptor functions that can be registered in the global slot.
Interceptors == {"same", "other"}

\* (interceptor.0)(&query, cx) for the registered function i.
run_interceptor(i, query) ==
    CASE i = "same" -> SomeIntercept(Backspace, <<"!">>, <<0>>)
      [] i = "other" -> IF query = <<>> THEN NoIntercept
                        ELSE SomeIntercept(ToggleLine, query, <<>>)
      [] OTHER -> NoIntercept

\* name.split("::").next(): the text before the first "::", the whole name if none.
RECURSIVE namespace_of(_)
namespace_of(name) ==
    IF name = <<>> THEN <<>>
    ELSE IF starts_with(name, <<":", ":">>) THEN <<>>
    ELSE <<name[1]>> \o namespace_of(Tail(name))

\* Command { name, action }
Command(name, action) == [name |-> name, action |-> action]

\* StringMatch { candidate_id, string, positions, score }
StringMatch(candidate_id, string, positions, score) ==
    [candidate_id |-> candidate_id, string |-> string, positions |-> positions,
     score |-> score]

\* Smart case: an uppercase query character matches exactly, any other one
\* matches without regard to case.
char_matches(qc, cc) == IF is_uppercase(qc) THEN cc = qc ELSE to_lowercase(cc) = qc

\* The 0-based positions of the leftmost occurrence of query as a subsequence of
\* string from 1-based index i on; <<-1>> when there is none.
RECURSIVE match_positions(_, _, _)
match_positions(string, query, i) ==
    IF query = <<>> THEN <<>>
    ELSE IF i > Len(string) THEN <<-1>>
    ELSE IF char_matches(query[1], string[i])
         THEN LET rest == match_positions(string, Tail(query), i + 1)
              IN IF rest = <<-1>> THEN <<-1>> ELSE <<i - 1>> \o rest
    ELSE match_positions(string, query, i + 1)

\* A positive score, higher for a query that covers more of the string.
match_score(string, query) == (100 * Len(query)) \div Len(string)

\* Best first: descending score, then ascending candidate id.
match_before(a, b) ==
    a.score > b.score \/ (a.score = b.score /\ a.candidate_id < b.candidate_id)

RECURSIVE insert_match(_, _)
insert_match(ms, m) ==
    IF ms = <<>> THEN <<m>>
    ELSE IF match_before(m, ms[1]) THEN <<m>> \o ms
    ELSE <<ms[1]>> \o insert_match(Tail(ms), m)

\* fuzzy::match_strings(&candidates, &query, true, 10000, ..): the candidates
\* (id = position in commands) that contain the query as a subsequence.
RECURSIVE match_strings_from(_, _, _)
match_strings_from(cmds, query, ix) ==
    IF ix > Len(cmds) THEN <<>>
    ELSE LET string == cmds[ix].name
             rest == match_strings_from(cmds, query, ix + 1)
             positions == match_positions(string, query, 1)
         IN IF positions = <<-1>> THEN rest
            ELSE insert_match(rest, StringMatch(ix - 1, string, positions,
                                                match_score(string, query)))

match_strings(cmds, query) ==
    IF cmds = <<>> THEN <<>> ELSE match_strings_from(cmds, query, 1)

----------------------------------------------------------------------------
(* CommandPalette::new, lines 54-74 *)

\* The filter_map closure: is the action left out of the palette?
is_hidden_types_only(f, action) == action.type \in f.hidden_action_types

is_hidden(f, action) ==
    \/ namespace_of(action.name) \in f.hidden_namespaces
    \/ action.type \in f.hidden_action_types

RECURSIVE new_commands(_, _)
new_commands(f, actions) ==
    IF actions = <<>> THEN <<>>
    ELSE IF is_hidden(f, actions[1]) THEN new_commands(f, Tail(actions))
    ELSE <<Command(humanize_action_name(actions[1].name), actions[1])>>
         \o new_commands(f, Tail(actions))

----------------------------------------------------------------------------
(* update_matches: the body of the spawned task, lines 192-292 *)

\* hit_counts.0.get(&name).cloned() as the rank of the Option: None < Some(0) < Some(1) ..
hit_rank(hits, name) == IF name \in DOMAIN hits THEN hits[name] + 1 ELSE 0

\* The sort key (Reverse(count), name): does a sort strictly before b?
sort_key_less_ascending_count(hits, a, b) ==
    \/ hit_rank(hits, a.name) < hit_rank(hits, b.name)
    \/ hit_rank(hits, a.name) = hit_rank(hits, b.name) /\ StrLess(a.name, b.name)

sort_key_less(hits, a, b) ==
    \/ hit_rank(hits, a.name) > hit_rank(hits, b.name)
    \/ hit_rank(hits, a.name) = hit_rank(hits, b.name) /\ StrLess(a.name, b.name)

\* Stable insertion: c goes before the first element that sorts strictly after it.
RECURSIVE sort_insert(_, _, _)
sort_insert(hits, sorted, c) ==
    IF sorted = <<>> THEN <<c>>
    ELSE IF sort_key_less(hits, c, sorted[1]) THEN <<c>> \o sorted
    ELSE <<sorted[1]>> \o sort_insert(hits, Tail(sorted), c)

\* commands.sort_by_key(..): a stable sort.
RECURSIVE sort_by_key(_, _, _)
sort_by_key(hits, sorted, rest) ==
    IF rest = <<>> THEN sorted
    ELSE sort_by_key(hits, sort_insert(hits, sorted, rest[1]), Tail(rest))

\* The empty-query branch, lines 212-221.
all_matches_reversed(cmds) ==
    [ix \in 1..Len(cmds) |->
        StringMatch(Len(cmds) - ix, cmds[Len(cmds) - ix + 1].name, <<>>, 0)]

all_matches_twice(cmds) ==
    [ix \in 1..(2 * Len(cmds)) |->
        StringMatch((ix - 1) % Len(cmds), cmds[((ix - 1) % Len(cmds)) + 1].name, <<>>, 0)]

all_matches(cmds) ==
    [ix \in 1..Len(cmds) |-> StringMatch(ix - 1, cmds[ix].name, <<>>, 0)]

\* intercept_result, lines 234-251.
intercept_result_no_override(slot, channel, query) ==
    IF slot = "none" THEN NoIntercept ELSE run_interceptor(slot, query)

intercept_result(slot, channel, query) ==
    IF channel = "Dev" /\ parse_zed_link(query)
    THEN SomeIntercept(OpenZedUrl(query), query, <<>>)
    ELSE IF slot = "none" THEN NoIntercept ELSE run_interceptor(slot, query)

\* matches.iter().position(..) and matches.remove(idx), lines 259-264.
remove_same_type_keep(cmds, ms, action) == ms

RECURSIVE remove_same_type(_, _, _)
remove_same_type(cmds, ms, action) ==
    IF ms = <<>> THEN <<>>
    ELSE IF cmds[ms[1].candidate_id + 1].action.type = action.type THEN Tail(ms)
    ELSE <<ms[1]>> \o remove_same_type(cmds, Tail(ms), action)

min(a, b) == IF a < b THEN a ELSE b

\* Lines 253-278: the lists after the intercept result has been spliced in.
splice_index_before_push(cmds, ms, ir) ==
    IF ir.some
    THEN [commands |-> Append(cmds, Command(ir.string, ir.action)),
          matches |-> <<StringMatch(Len(cmds) - 1, ir.string, ir.positions, 0)>>
                      \o remove_same_type(cmds, ms, ir.action)]
    ELSE [commands |-> cmds, matches |-> ms]

splice(cmds, ms, ir) ==
    IF ir.some
    THEN LET pushed == Append(cmds, Command(ir.string, ir.action))
         IN [commands |-> pushed,
             matches |-> <<StringMatch(Len(pushed) - 1, ir.string, ir.positions, 0)>>
                         \o remove_same_type(cmds, ms, ir.action)]
    ELSE [commands |-> cmds, matches |-> ms]

\* Lines 285-290: the selection index after the lists have been replaced.
clamp_selected_keep(ix, ms) == ix

clamp_selected(ix, ms) == IF ms = <<>> THEN 0 ELSE min(ix, Len(ms) - 1)

\* One effect of a handler.
Effect(kind, arg) == [kind |-> kind, arg |-> arg]

----------------------------------------------------------------------------
(* The state machine *)

NoHits == [n \in {} |-> 0]

\* CommandPaletteFilter values set by other crates.
Filter(namespaces, types) ==
    [hidden_namespaces |-> namespaces, hidden_action_types |-> types]
Filters == {Filter({}, {}), Filter({<<"g", "_", "l">>}, {"GoToDefinition"})}

\* The inputs of an applied pass: its query and the interceptor slot it read (the
\* catalog and the release channel are fixed for an activation; the HitCounts it read
\* show in the order it sorted the catalog into, the head of the Command list).
\* repeat: the pass applied before it in this activation had the same inputs.
NotApplied == [some |-> FALSE, query |-> <<>>, interceptor |-> "none", repeat |-> FALSE]
SameInputs(a, shown, query, slot, sorted) ==
    /\ a.some
    /\ a.query = query
    /\ a.interceptor = slot
    /\ Len(shown) >= Len(sorted)
    /\ SubSeq(shown, 1, Len(sorted)) = sorted
Applied(a, shown, query, slot, sorted) ==
    [some |-> TRUE, query |-> query, interceptor |-> slot,
     repeat |-> SameInputs(a, shown, query, slot, sorted)]

delegate == <<all_commands, commands, matches, selected_ix, previous_focus_handle>>
view == <<picker, alive, current_query>>
globals == <<hit_counts, filter, interceptor, release_channel>>

\* init(cx), lines 24-28, and the other crates' setup: empty HitCounts, the filter
\* and the release channel as set at startup, no interceptor, no palette yet.
Init ==
    /\ hit_counts = NoHits
    /\ filter \in Filters
    /\ interceptor = "none"
    /\ release_channel \in {"Dev", "Stable"}
    /\ focused = "editor"
    /\ picker = 0
    /\ alive = FALSE
    /\ current_query = <<>>
    /\ all_commands = <<>>
    /\ commands = <<>>
    /\ matches = <<>>
    /\ selected_ix = 0
    /\ previous_focus_handle = "none"
    /\ tasks = <<>>
    /\ applied = NotApplied
    /\ effects = <<>>
    /\ h_name = <<>>
    /\ h_result = <<"unset">>
    /\ worktrees = <<>>
    /\ active_entry = "none"
    /\ last_scheduled_runnable = "none"
    /\ r_effects = <<>>

\* cx.set_global(CommandPaletteInterceptor(..)) by another crate: replace on register.
set_interceptor(i) ==
    /\ interceptor # i
    /\ interceptor' = i
    /\ effects' = <<>>
    /\ UNCHANGED <<hit_counts, filter, release_channel, focused, view, delegate,
                   tasks, applied, hvars>>

\* The Toggle action, lines 38-46, CommandPalette::new and CommandPaletteDelegate::new.
Toggle ==
    /\ focused # "none"
    /\ ~alive
    /\ picker < MaxActivations
    /\ picker' = picker + 1
    /\ alive' = TRUE
    /\ current_query' = <<>>
    /\ all_commands' = new_commands(filter, available_actions)
    /\ commands' = all_commands'
    /\ matches' = <<>>
    /\ selected_ix' = 0
    /\ previous_focus_handle' = focused
    /\ focused' = "palette"
    /\ applied' = NotApplied
    /\ effects' = <<>>
    /\ UNCHANGED <<globals, tasks, hvars>>

\* The workspace hides the modal: the palette and its picker are released.
Release ==
    /\ alive
    /\ alive' = FALSE
    /\ current_query' = <<>>
    /\ all_commands' = <<>>
    /\ commands' = <<>>
    /\ matches' = <<>>
    /\ selected_ix' = 0
    /\ applied' = NotApplied
    /\ effects' = <<>>
    /\ UNCHANGED <<globals, focused, picker, previous_focus_handle, tasks, hvars>>

\* set_selected_index, lines 180-182; the picker selects one of the listed matches.
set_selected_index(ix) ==
    /\ alive
    /\ ix # selected_ix
    /\ selected_ix' = ix
    /\ effects' = <<>>
    /\ UNCHANGED <<globals, focused, view, all_commands, commands, matches,
                   previous_focus_handle, tasks, applied, hvars>>

\* let mut commands = self.all_commands.clone(), line 189.
cloned_commands_shown == commands

cloned_commands == all_commands

\* update_matches, lines 184-191 and 293: clone all_commands and spawn the task.
update_matches(query) ==
    /\ alive
    /\ Len(tasks) < MaxTasks
    /\ tasks' = Append(tasks, [picker |-> picker, query |-> query, pc |-> "spawned",
                               commands |-> cloned_commands, matches |-> <<>>])
    /\ current_query' = query
    /\ effects' = <<>>
    /\ UNCHANGED <<globals, focused, picker, alive, delegate, applied, hvars>>

\* picker.update(..), lines 280-292: write the lists if the picker still exists.
apply_always(t) == TRUE

apply_if_alive(t) == alive /\ picker = tasks[t].picker

\* Lines 234-292: intercept, splice and apply, from the task's commands and matches.
\* The completed task has given its lists to the picker or dropped them.
finish(t, cmds, ms) ==
    LET ir == intercept_result(interceptor, release_channel, tasks[t].query)
        out == splice(cmds, ms, ir)
    IN /\ tasks' = [tasks EXCEPT ![t] = [picker |-> @.picker, query |-> <<>>,
                                          pc |-> "done", commands |-> <<>>,
                                          matches |-> <<>>]]
       /\ IF apply_if_alive(t)
          THEN /\ commands' = out.commands
               /\ matches' = out.matches
               /\ selected_ix' = clamp_selected(selected_ix, out.matches)
               /\ applied' = Applied(applied, commands, tasks[t].query, interceptor, cmds)
               /\ effects' = <<>>
          ELSE /\ UNCHANGED <<commands, matches, selected_ix, applied>>
               /\ effects' = <<Effect("log_err", t)>>
       /\ UNCHANGED <<globals, focused, view, all_commands, previous_focus_handle,
                      hvars>>

\* The task's first poll with an empty query: lines 192-221 and 234-292, no await.
rank_empty(t) ==
    /\ tasks[t].pc = "spawned"
    /\ tasks[t].query = <<>>
    /\ LET sorted == sort_by_key(hit_counts, <<>>, tasks[t].commands)
       IN finish(t, sorted, all_matches(sorted))

\* The task's first poll with a non-empty query: lines 192-231, up to the await.
rank_start_entry_api(t) ==
    /\ tasks[t].pc = "spawned"
    /\ tasks[t].query # <<>>
    /\ tasks' = [tasks EXCEPT ![t] =
                    [@ EXCEPT !.pc = "matching",
                              !.commands = sort_by_key(hit_counts, <<>>, @)]]
    /\ hit_counts' = [n \in DOMAIN hit_counts \cup {c.name : c \in Range(tasks[t].commands)}
                        |-> IF n \in DOMAIN hit_counts THEN hit_counts[n] ELSE 0]
    /\ effects' = <<>>
    /\ UNCHANGED <<filter, interceptor, release_channel, focused, view, delegate,
                   applied, hvars>>

rank_start(t) ==
    /\ tasks[t].pc = "spawned"
    /\ tasks[t].query # <<>>
    /\ tasks' = [tasks EXCEPT ![t] =
                    [@ EXCEPT !.pc = "matching",
                              !.commands = sort_by_key(hit_counts, <<>>, @)]]
    /\ effects' = <<>>
    /\ UNCHANGED <<globals, focused, view, delegate, applied, hvars>>

\* The task resumes when the background match is done: lines 231-292.
rank_resume(t) ==
    /\ tasks[t].pc = "matching"
    /\ finish(t, tasks[t].commands, match_strings(tasks[t].commands, tasks[t].query))

\* dismissed, lines 296-300: what it emits or logs.
dismissed_effects == IF alive THEN <<Effect("DismissEvent", picker)>>
                     ELSE <<Effect("log_err", picker)>>

dismissed ==
    /\ alive
    /\ effects' = <<Effect("dismissed", picker)>> \o dismissed_effects
    /\ UNCHANGED <<globals, focused, view, delegate, tasks, applied, hvars>>

\* *hit_counts.0.entry(name).or_default() += 1, line 316.
hit_skip(hits, name) == hits

hit(hits, name) ==
    [n \in DOMAIN hits \cup {name} |->
        IF n = name THEN (IF n \in DOMAIN hits THEN hits[n] ELSE 0) + 1 ELSE hits[n]]

RECURSIVE total_hits(_, _)
total_hits(hits, names) ==
    IF names = {} THEN 0
    ELSE LET n == CHOOSE x \in names : TRUE
         IN hits[n] + total_hits(hits, names \ {n})

\* confirm with no matches, lines 303-306.
confirm_on_empty_return == <<>>

confirm_on_empty == dismissed_effects

\* Lines 310-321 in order: what confirm reports, writes, emits and dispatches.
confirm_effects_dispatch_first(command) ==
    <<Effect("telemetry", command.name),
      Effect("dispatch", command.action),
      Effect("clear", 0),
      Effect("hit", command.name),
      Effect("focus", previous_focus_handle)>>
    \o dismissed_effects

confirm_effects(command) ==
    <<Effect("telemetry", command.name),
      Effect("clear", 0),
      Effect("hit", command.name),
      Effect("focus", previous_focus_handle)>>
    \o dismissed_effects
    \o <<Effect("dispatch", command.action)>>

\* confirm, lines 302-322.
confirm ==
    /\ alive
    /\ IF matches = <<>>
       THEN /\ effects' = <<Effect("confirm", selected_ix)>> \o confirm_on_empty
            /\ UNCHANGED <<globals, focused, view, delegate, tasks, applied, hvars>>
       ELSE LET action_ix == matches[selected_ix + 1].candidate_id
                command == commands[action_ix + 1]
            IN /\ total_hits(hit_counts, DOMAIN hit_counts) < MaxHits
               /\ matches' = <<>>
               /\ commands' = <<>>
               /\ hit_counts' = hit(hit_counts, command.name)
               /\ focused' = previous_focus_handle
               /\ applied' = NotApplied
               /\ effects' = <<Effect("confirm", selected_ix)>>
                             \o confirm_effects(command)
               /\ UNCHANGED <<filter, interceptor, release_channel, view,
                              all_commands, selected_ix, previous_focus_handle, tasks,
                              hvars>>

Next ==
    \/ \E i \in Interceptors \cup {"none"} : set_interceptor(i)
    \/ Toggle
    \/ Release
    \/ \E ix \in 0..(IF matches = <<>> THEN 0 ELSE Len(matches) - 1) : set_selected_index(ix)
    \/ \E q \in Queries : update_matches(q)
    \/ \E t \in 1..Len(tasks) : rank_empty(t)
    \/ \E t \in 1..Len(tasks) : rank_start(t)
    \/ \E t \in 1..Len(tasks) : rank_resume(t)
    \/ dismissed
    \/ confirm

Spec == Init /\ [][Next]_vars

----------------------------------------------------------------------------
(* humanize_action_name on every string of a bounded alphabet *)

HAlphabet == {":", "_", " ", "A", "B", "b"}

GoToDefinitionName == <<"e", "d", "i", "t", "o", "r", ":", ":",
                        "G", "o", "T", "o", "D", "e", "f", "i", "n", "i", "t", "i", "o", "n">>
DeployName == <<"g", "o", "_", "t", "o", "_", "l", "i", "n", "e", ":", ":",
                "D", "e", "p", "l", "o", "y">>

HNames == UNION {[1..n -> HAlphabet] : n \in 0..MaxNameLen}
            \cup {GoToDefinitionName, DeployName}

HInit ==
    /\ hit_counts = NoHits
    /\ filter = Filter({}, {})
    /\ interceptor = "none"
    /\ release_channel = "Stable"
    /\ focused = "editor"
    /\ picker = 0
    /\ alive = FALSE
    /\ current_query = <<>>
    /\ all_commands = <<>>
    /\ commands = <<>>
    /\ matches = <<>>
    /\ selected_ix = 0
    /\ previous_focus_handle = "none"
    /\ tasks = <<>>
    /\ applied = NotApplied
    /\ effects = <<>>
    /\ h_name \in HNames
    /\ h_result = <<"unset">>
    /\ worktrees = <<>>
    /\ active_entry = "none"
    /\ last_scheduled_runnable = "none"
    /\ r_effects = <<>>

humanize ==
    /\ h_result = <<"unset">>
    /\ h_result' = humanize_action_name(h_name)
    /\ UNCHANGED <<pvars, h_name, rvars>>

HNext == humanize

HSpec == HInit /\ [][HNext]_vars

----------------------------------------------------------------------------
(* runnables_ui: schedule_runnable and runnable_cwd *)

\* A worktree of the project: abs_path(), is_visible(), is_local(), whether its root
\* entry is a directory, and the entry ids contains_entry() answers true for.
Worktree(path, visible, local, dir, entries) ==
    [abs_path |-> path, is_visible |-> visible, is_local |-> local,
     root_is_dir |-> dir, entries |-> entries]

WorktreePool == {Worktree("/a", TRUE, TRUE, TRUE, {"e1"}),
                 Worktree("/b", TRUE, TRUE, TRUE, {"e2"}),
                 Worktree("/hidden", FALSE, TRUE, TRUE, {"e3"}),
                 Worktree("/file", TRUE, TRUE, FALSE, {"e4"}),
                 Worktree("/remote", TRUE, FALSE, TRUE, {"e5"})}

Entries == {"e1", "e2", "e3"}

\* The projects: up to MaxWorktrees distinct worktrees in any order.
Projects ==
    {ws \in UNION {[1..n -> WorktreePool] : n \in 0..MaxWorktrees} :
        \A i, j \in 1..Len(ws) : ws[i] = ws[j] => i = j}

\* A Runnable: id(), cwd() ("none" = None) and whether exec() returns a spawn request.
Runnable(id, cwd, spawns) == [id |-> id, cwd |-> cwd, spawns |-> spawns]

Runnables == {Runnable("own", "/own", TRUE),
              Runnable("plain", "none", TRUE),
              Runnable("idle", "none", FALSE)}

\* inventory.last_scheduled_runnable(cx): the runnable with the stored id.
runnable_by_id(id) == CHOOSE r \in Runnables : r.id = id

\* The filter of lines 58-66.
is_available(worktree) ==
    worktree.is_visible /\ worktree.is_local /\ worktree.root_is_dir

RECURSIVE available_worktrees(_)
available_worktrees(ws) ==
    IF ws = <<>> THEN <<>>
    ELSE IF is_available(ws[1]) THEN <<ws[1]>> \o available_worktrees(Tail(ws))
    ELSE available_worktrees(Tail(ws))

\* find_map over the available worktrees, lines 72-79: the first that contains the entry.
RECURSIVE find_map(_, _)
find_map(ws, entry_id) ==
    IF ws = <<>> THEN "none"
    ELSE IF entry_id \in ws[1].entries THEN ws[1].abs_path
    ELSE find_map(Tail(ws), entry_id)

\* anyhow::Result<Option<PathBuf>>
Ok(cwd) == [ok |-> TRUE, cwd |-> cwd]
Err == [ok |-> FALSE, cwd |-> "none"]

\* runnable_cwd, lines 56-89.
runnable_cwd_first_available(ws, active) ==
    LET available == available_worktrees(ws)
    IN IF Len(available) = 0 THEN Ok("none") ELSE Ok(available[1].abs_path)

runnable_cwd(ws, active) ==
    LET available == available_worktrees(ws)
    IN IF Len(available) = 0 THEN Ok("none")
       ELSE IF Len(available) = 1 THEN Ok(available[1].abs_path)
       ELSE LET cwd_for_active_entry ==
                    IF active = "none" THEN "none" ELSE find_map(available, active)
            IN IF cwd_for_active_entry # "none" THEN Ok(cwd_for_active_entry) ELSE Err

\* SpawnInTerminal as returned by exec(cwd).
SpawnInTerminal(id, cwd) == [id |-> id, cwd |-> cwd]

\* Lines 46-51: the inventory's last_scheduled_runnable after exec returned.
scheduled_after_always(runnable, last) == runnable.id

scheduled_after(runnable, last) == IF runnable.spawns THEN runnable.id ELSE last

\* schedule_runnable, lines 36-54, as the effects it has and the inventory it leaves.
schedule_runnable(runnable, entry) ==
    LET resolved == runnable_cwd(worktrees, active_entry)
        logged == IF runnable.cwd = "none" /\ ~resolved.ok
                  THEN <<Effect("log_err", runnable.id)>> ELSE <<>>
        cwd == IF runnable.cwd # "none" THEN runnable.cwd ELSE resolved.cwd
        spawned == IF runnable.spawns
                   THEN <<Effect("SpawnRunnable", SpawnInTerminal(runnable.id, cwd))>>
                   ELSE <<>>
    IN /\ r_effects' = <<entry>> \o logged
                       \o <<Effect("exec", SpawnInTerminal(runnable.id, cwd))>>
                       \o spawned
       /\ last_scheduled_runnable' = scheduled_after(runnable, last_scheduled_runnable)
       /\ UNCHANGED <<worktrees, active_entry>>

\* The runnables modal confirms a runnable: schedule_runnable(workspace, runnable, cx).
schedule(runnable) ==
    /\ schedule_runnable(runnable, Effect("schedule", runnable.id))
    /\ UNCHANGED <<pvars, h_name, h_result>>

\* The Rerun action, lines 22-30.
Rerun ==
    /\ IF last_scheduled_runnable # "none"
       THEN schedule_runnable(runnable_by_id(last_scheduled_runnable),
                              Effect("Rerun", last_scheduled_runnable))
       ELSE /\ r_effects' = <<Effect("Rerun", "none")>>
            /\ UNCHANGED <<worktrees, active_entry, last_scheduled_runnable>>
    /\ UNCHANGED <<pvars, h_name, h_result>>

RInit ==
    /\ hit_counts = NoHits
    /\ filter = Filter({}, {})
    /\ interceptor = "none"
    /\ release_channel = "Stable"
    /\ focused = "editor"
    /\ picker = 0
    /\ alive = FALSE
    /\ current_query = <<>>
    /\ all_commands = <<>>
    /\ commands = <<>>
    /\ matches = <<>>
    /\ selected_ix = 0
    /\ previous_focus_handle = "none"
    /\ tasks = <<>>
    /\ applied = NotApplied
    /\ effects = <<>>
    /\ h_name = <<>>
    /\ h_result = <<"unset">>
    /\ worktrees \in Projects
    /\ active_entry \in Entries \cup {"none"}
    /\ last_scheduled_runnable = "none"
    /\ r_effects = <<>>

RNext ==
    \/ \E r \in Runnables : schedule(r)
    \/ Rerun

RSpec == RInit /\ [][RNext]_vars

----------------------------------------------------------------------------
(* Properties *)

\* The HitCounts value of a display name, an absent key counting as 0.
count(hits, name) == IF name \in DOMAIN hits THEN hits[name] ELSE 0

\* This step is the completion of task t.
Completes(t) ==
    /\ Len(tasks') = Len(tasks)
    /\ tasks[t].pc # "done"
    /\ tasks'[t].pc = "done"

\* This step is the completion of task t while its picker still exists.
Applies(t) == Completes(t) /\ alive /\ picker = tasks[t].picker

\* What the registered interceptor returns for the query.
RegisteredResult(query) ==
    IF interceptor = "none" THEN NoIntercept ELSE run_interceptor(interceptor, query)

\* The intercept result a pass uses: the open-URL result in development mode for a
\* link, the registered interceptor's result otherwise.
EffectiveResult(query) ==
    IF release_channel = "Dev" /\ parse_zed_link(query)
    THEN SomeIntercept(OpenZedUrl(query), query, <<>>)
    ELSE RegisteredResult(query)

\* Match 0 is the result r and no other Match resolves to an action of r's type.
InterceptOnTop(cmds, ms, r) ==
    /\ ms # <<>>
    /\ ms[1].string = r.string
    /\ ms[1].positions = r.positions
    /\ ms[1].score = 0
    /\ ms[1].candidate_id < Len(cmds)
    /\ cmds[ms[1].candidate_id + 1].action = r.action
    /\ \A i \in 2..Len(ms) : cmds[ms[i].candidate_id + 1].action.type # r.action.type

\* C1 as stated: for a non-empty query, whenever the registered interceptor returns a
\* result, the applied Match list starts with that result and no other Match resolves
\* to an action of the same type.
C1_InterceptorResultFirst ==
    [][\A t \in 1..Len(tasks) :
          (Applies(t) /\ tasks[t].query # <<>> /\ RegisteredResult(tasks[t].query).some)
          => InterceptOnTop(commands', matches', RegisteredResult(tasks[t].query))]_vars

\* C1 amended: for a non-empty query, whenever the pass has an intercept result (the
\* open-URL result in development mode for a link, else the interceptor's), the applied
\* Match list starts with that result (string, positions, score 0, its action) and no
\* other Match resolves to an action of the same type.
C1_EffectiveInterceptFirst ==
    [][\A t \in 1..Len(tasks) :
          (Applies(t) /\ tasks[t].query # <<>> /\ EffectiveResult(tasks[t].query).some)
          => InterceptOnTop(commands', matches', EffectiveResult(tasks[t].query))]_vars

\* An intercepted Backspace on top of a fuzzy match, the catalog's own Backspace removed.
C1_Witness ==
    /\ alive
    /\ Len(all_commands) = Len(available_actions)
    /\ Len(commands) = Len(all_commands) + 1
    /\ commands[Len(commands)].action.type = "Backspace"
    /\ Len(matches) = 2
    /\ matches[1].candidate_id = Len(all_commands)
    /\ matches[2].score > 0

\* The task for the most recently issued query of the current activation is done.
LatestDone ==
    \E u \in 1..Len(tasks) :
        /\ tasks[u].picker = picker
        /\ tasks[u].pc = "done"
        /\ \A v \in (u + 1)..Len(tasks) : tasks[v].picker # picker

\* C2: once the task for the most recently issued query has completed, a task issued
\* earlier for another query, whose background match finishes later, does not change
\* the lists shown: the lists shown when all tasks are done are the latest query's.
C2_LaterQueryWins ==
    [][\A t \in 1..Len(tasks) :
          (Applies(t) /\ tasks[t].pc = "matching" /\ LatestDone
             /\ tasks[t].query # current_query)
          => UNCHANGED <<commands, matches>>]_vars

\* This step is a confirm with a non-empty Match list.
ConfirmsMatch ==
    /\ alive
    /\ matches # <<>>
    /\ effects' # <<>>
    /\ effects'[1].kind = "confirm"

SortedByHistory(cmds, hits) ==
    \A i, j \in 1..Len(cmds) :
        i < j => \/ count(hits, cmds[i].name) > count(hits, cmds[j].name)
                 \/ /\ count(hits, cmds[i].name) = count(hits, cmds[j].name)
                    /\ StrLeq(cmds[i].name, cmds[j].name)

\* One Match per entry of cmds, Match k being entry k, score 0, nothing highlighted.
OneMatchPerEntry(cmds, ms) ==
    /\ Len(ms) = Len(cmds)
    /\ \A k \in 1..Len(ms) :
          /\ ms[k].candidate_id = k - 1
          /\ ms[k].string = cmds[k].name
          /\ ms[k].positions = <<>>
          /\ ms[k].score = 0

\* cmds is the catalog the task was given, in history-sorted order.
SortedCatalog(t, cmds) ==
    /\ Len(cmds) = Len(tasks[t].commands)
    /\ Range(cmds) = Range(tasks[t].commands)
    /\ SortedByHistory(cmds, hit_counts)

\* C4 as stated: for an empty query the applied Match list has one Match per catalog
\* entry in the history-sorted catalog order, each with score 0 and no positions.
C4_EmptyQueryListsCatalog ==
    [][\A t \in 1..Len(tasks) :
          (Applies(t) /\ tasks[t].query = <<>>)
          => SortedCatalog(t, commands') /\ OneMatchPerEntry(commands', matches')]_vars

\* C4 amended: the same, for an empty query for which the pass has no intercept result.
C4_EmptyQueryNoIntercept ==
    [][\A t \in 1..Len(tasks) :
          (Applies(t) /\ tasks[t].query = <<>> /\ ~EffectiveResult(<<>>).some)
          => SortedCatalog(t, commands') /\ OneMatchPerEntry(commands', matches')]_vars

\* The whole catalog is listed for an empty query, a command with a hit first although
\* its name sorts after the next one.
C4_Witness ==
    /\ alive
    /\ Len(all_commands) = Len(available_actions)
    /\ Len(commands) = Len(all_commands)
    /\ OneMatchPerEntry(commands, matches)
    /\ matches[1].string \in DOMAIN hit_counts
    /\ StrLess(matches[2].string, matches[1].string)

\* C5: the sort of a ranking pass leaves the catalog with higher counts first and equal
\* counts in ascending display-name order (ascending by name when there is no history).
C5_SortedByHistory ==
    [][\A t \in 1..Len(tasks) :
          /\ (Len(tasks') = Len(tasks) /\ tasks[t].pc = "spawned"
                /\ tasks'[t].pc = "matching")
             => SortedCatalog(t, tasks'[t].commands)
          /\ (Applies(t) /\ tasks[t].pc = "spawned")
             => /\ Len(commands') >= Len(tasks[t].commands)
                /\ SortedCatalog(t, SubSeq(commands', 1, Len(tasks[t].commands)))
                /\ hit_counts = NoHits
                   => \A i \in 1..(Len(tasks[t].commands) - 1) :
                          StrLeq(commands'[i].name, commands'[i + 1].name)]_vars

\* A task has sorted a command with a hit ahead of one whose name is smaller.
C5_Witness ==
    \E t \in 1..Len(tasks) :
        /\ tasks[t].pc = "matching"
        /\ Len(tasks[t].commands) = Len(available_actions)
        /\ SortedByHistory(tasks[t].commands, hit_counts)
        /\ tasks[t].commands[1].name \in DOMAIN hit_counts
        /\ StrLess(tasks[t].commands[2].name, tasks[t].commands[1].name)
        /\ StrLess(tasks[t].commands[2].name, tasks[t].commands[3].name)

\* C6: a ranking task that completes after its palette was released writes no Match
\* list, Command list or selection index, leaves HitCounts alone and only logs.
C6_ReleasedPickerUntouched ==
    [][\A t \in 1..Len(tasks) :
          (Completes(t) /\ ~(alive /\ picker = tasks[t].picker))
          => /\ UNCHANGED <<all_commands, commands, matches, selected_ix, hit_counts>>
             /\ \A i \in 1..Len(effects') : effects'[i].kind = "log_err"]_vars

\* A task of a released palette has completed and logged the failed update.
C6_Witness ==
    /\ ~alive
    /\ effects # <<>>
    /\ effects[1].kind = "log_err"
    /\ \E t \in 1..Len(tasks) : tasks[t].pc = "done"

\* C7: confirm with an empty Match list only emits the DismissEvent, as dismissed does:
\* HitCounts, the lists and the focus are unchanged, nothing is reported or dispatched.
C7_ConfirmOnEmptyDismisses ==
    [][(alive /\ matches = <<>> /\ effects' # <<>> /\ effects'[1].kind = "confirm")
       => /\ Len(effects') = 2
          /\ effects'[2].kind = "DismissEvent"
          /\ effects'[2].arg = picker
          /\ UNCHANGED <<globals, focused, view, delegate, tasks, applied>>]_vars

\* A confirm has run on an empty Match list.
C7_Witness ==
    /\ alive
    /\ matches = <<>>
    /\ Len(effects) = 2
    /\ effects[1].kind = "confirm"
    /\ effects[2].kind = "DismissEvent"

\* C8: HitCounts changes in no step but a confirm on a non-empty Match list.
C8_OnlyConfirmWritesHistory ==
    [][hit_counts' # hit_counts => ConfirmsMatch]_vars

\* Ranking passes have completed, the last for a non-empty query with an intercept result,
\* a dismiss has run, and the history is still empty.
C8_Witness ==
    /\ hit_counts = NoHits
    /\ Len(tasks) = MaxTasks
    /\ \A t \in 1..Len(tasks) : tasks[t].pc = "done"
    /\ Len(commands) > Len(all_commands)
    /\ Len(matches) > 1
    /\ matches[2].score > 0
    /\ effects # <<>>
    /\ effects[1].kind = "dismissed"

\* The namespace of the action Match m resolves to.
MatchNamespace(m) == namespace_of(commands[m.candidate_id + 1].action.name)

\* C9 as stated: no Match resolves to an action of a hidden namespace.
C9_NoMatchFromHiddenNamespace ==
    alive => \A i \in 1..Len(matches) :
                 MatchNamespace(matches[i]) \notin filter.hidden_namespaces

\* C9 amended: with the namespace hidden when the palette was opened, no Match other
\* than the one spliced in for an intercept result resolves to an action of it.
C9_NoCatalogMatchFromHiddenNamespace ==
    alive => \A i \in 1..Len(matches) :
                 matches[i].candidate_id < Len(all_commands)
                 => MatchNamespace(matches[i]) \notin filter.hidden_namespaces

\* A namespace is hidden and a fuzzy match from the remaining catalog is listed.
C9_Witness ==
    /\ alive
    /\ filter.hidden_namespaces # {}
    /\ matches # <<>>
    /\ matches[Len(matches)].candidate_id < Len(all_commands)
    /\ matches[Len(matches)].score > 0

\* The rules of the display-name normalisation, read left to right over the input.
RECURSIVE humanize_rules(_, _)
humanize_rules(out, rest) ==
    IF rest = <<>> THEN out
    ELSE IF starts_with(rest, <<":", ":">>)
         THEN humanize_rules(out \o <<":", " ">>, SubSeq(rest, 3, Len(rest)))
    ELSE IF rest[1] = ":" THEN humanize_rules(Append(out, ":"), Tail(rest))
    ELSE IF rest[1] = "_" THEN humanize_rules(Append(out, " "), Tail(rest))
    ELSE IF is_uppercase(rest[1])
         THEN humanize_rules((IF ends_with(out, " ") THEN out ELSE Append(out, " "))
                             \o <<to_lowercase(rest[1])>>, Tail(rest))
    ELSE humanize_rules(Append(out, rest[1]), Tail(rest))

\* C10: humanize_action_name gives what the left-to-right rules give, and the two
\* documented examples.
C10_HumanizeFollowsRules ==
    h_result # <<"unset">>
    => /\ h_result = humanize_rules(<<>>, h_name)
       /\ h_name = GoToDefinitionName
          => h_result = <<"e", "d", "i", "t", "o", "r", ":", " ", "g", "o", " ", "t", "o",
                          " ", "d", "e", "f", "i", "n", "i", "t", "i", "o", "n">>
       /\ h_name = DeployName
          => h_result = <<"g", "o", " ", "t", "o", " ", "l", "i", "n", "e", ":", " ",
                          "d", "e", "p", "l", "o", "y">>

\* An uppercase letter right after "::" has been humanized.
C10_Witness ==
    /\ h_name = <<"b", ":", ":", "A">>
    /\ h_result = <<"b", ":", " ", "a">>

----------------------------------------------------------------------------
(* Properties of a ranking pass and of confirm, second part *)

\* C11: the Match list a ranking pass applies is no longer than the catalog the pass
\* was given, plus 1 if the pass had an intercept result for its query.
C11_MatchCountBounded ==
    [][\A t \in 1..Len(tasks) :
          Applies(t)
          => Len(matches') <= Len(tasks[t].commands)
                              + (IF EffectiveResult(tasks[t].query).some THEN 1 ELSE 0)]_vars

\* Every entry of a non-empty catalog matched and an intercept result was put on top.
C11_Witness ==
    /\ alive
    /\ applied.some
    /\ all_commands # <<>>
    /\ Len(matches) = Len(all_commands) + 1
    /\ matches[1].candidate_id = Len(all_commands)

\* The catalog as pass t sorted it: the head of the Command list it applies.
SortedBy(t) == SubSeq(commands', 1, Len(tasks[t].commands))

\* C12: a pass applied over the lists of a pass of the same activation (same catalog,
\* same release channel) that had the same query and the same interceptor and sorted
\* the catalog into the same order, as passes reading the same HitCounts do, leaves
\* the Command and Match lists exactly as they are.
C12_SameInputsSameLists ==
    [][\A t \in 1..Len(tasks) :
          (Applies(t) /\ Len(commands') >= Len(tasks[t].commands)
             /\ SameInputs(applied, commands, tasks[t].query, interceptor, SortedBy(t)))
          => /\ matches' = matches
             /\ commands' = commands]_vars

\* Two passes with the same inputs have been applied one after the other, for a
\* non-empty query with fuzzy matches under an intercept result.
C12_Witness ==
    /\ alive
    /\ applied.repeat
    /\ applied.query # <<>>
    /\ Len(matches) > 1
    /\ matches[2].score > 0

\* The Match list task t produces if it resumes with slot as the registered interceptor.
OutcomeWith(t, slot) ==
    splice(tasks[t].commands, match_strings(tasks[t].commands, tasks[t].query),
           intercept_result(slot, release_channel, tasks[t].query)).matches

\* C13: replacing or removing the registered interceptor while a pass waits for the
\* background fuzzy match does not change the Match list that pass produces.
C13_InterceptorSnapshotAtStart ==
    [][\A t \in 1..Len(tasks) :
          (Len(tasks') = Len(tasks) /\ tasks[t].pc = "matching"
             /\ tasks'[t].pc = "matching" /\ interceptor' # interceptor)
          => OutcomeWith(t, interceptor') = OutcomeWith(t, interceptor)]_vars

\* A confirm has dispatched an action in the current activation: the focus is back on
\* the pre-activation target, which no other handler of the open palette does.
Dispatched == alive /\ focused # "palette"

\* C14: after a confirm that dispatched an action the Match and Command lists stay
\* empty for the rest of the activation, whatever task completes afterwards.
C14_OneShotPerActivation ==
    [][Dispatched => (matches' = <<>> /\ commands' = <<>>)]_vars

\* The lists pass t applies are made with the intercept result r: none leaves the
\* sorted catalog and its matches alone, a result is appended as a Command and put first.
UsesResult(t, r) ==
    IF r.some
    THEN /\ Len(commands') = Len(tasks[t].commands) + 1
         /\ commands'[Len(commands')] = Command(r.string, r.action)
         /\ matches'[1] = StringMatch(Len(commands') - 1, r.string, r.positions, 0)
    ELSE /\ Len(commands') = Len(tasks[t].commands)
         /\ \A i \in 1..Len(matches') : matches'[i].candidate_id < Len(tasks[t].commands)

\* C15: in development mode with a query that parses as an internal link the pass uses
\* the open-URL result (action OpenZedUrl of the query, string the query, no positions)
\* whatever the registered interceptor returns; otherwise it uses the registered
\* interceptor's result, or none, unchanged.
C15_DevLinkOverridesInterceptor ==
    [][\A t \in 1..Len(tasks) :
          Applies(t)
          => LET query == tasks[t].query
             IN IF release_channel = "Dev" /\ parse_zed_link(query)
                THEN UsesResult(t, SomeIntercept(OpenZedUrl(query), query, <<>>))
                ELSE UsesResult(t, RegisteredResult(query))]_vars

\* A link query was ranked in development mode with an interceptor registered that
\* returns a result for it, and the open-URL result is the one on top.
C15_Witness ==
    /\ alive
    /\ release_channel = "Dev"
    /\ applied.some
    /\ applied.query = ZedLink
    /\ applied.interceptor # "none"
    /\ run_interceptor(applied.interceptor, ZedLink).some
    /\ matches # <<>>
    /\ commands[matches[1].candidate_id + 1].action = OpenZedUrl(ZedLink)

\* C16: when a ranking result is applied the selection index becomes
\* min(previous index, Match count - 1) for a non-empty Match list and 0 for an empty
\* one, so it is a valid index whenever the new list is non-empty.
C16_SelectionClamped ==
    [][\A t \in 1..Len(tasks) :
          Applies(t)
          => /\ matches' = <<>> => selected_ix' = 0
             /\ matches' # <<>>
                => /\ selected_ix' = min(selected_ix, Len(matches') - 1)
                   /\ selected_ix' \in 0..(Len(matches') - 1)]_vars

\* All passes are applied, the last one on a list shorter than the catalog with the
\* selection on its last Match.
C16_Witness ==
    /\ alive
    /\ applied.some
    /\ Len(tasks) > 1
    /\ \A t \in 1..Len(tasks) : tasks[t].pc = "done"
    /\ Len(matches) > 1
    /\ Len(matches) < Len(all_commands)
    /\ selected_ix = Len(matches) - 1

\* The effects of kind k in es, by position.
Positions(es, k) == {i \in 1..Len(es) : es[i].kind = k}

\* C17: a confirm that dispatches clears the lists and increments HitCounts, then
\* restores the focus to the pre-activation target, then emits the DismissEvent, and
\* only then hands the action to the dispatcher, once.
C17_FocusBeforeDispatch ==
    [][ConfirmsMatch
       => /\ Cardinality(Positions(effects', "dispatch")) = 1
          /\ Cardinality(Positions(effects', "clear")) = 1
          /\ Cardinality(Positions(effects', "hit")) = 1
          /\ Cardinality(Positions(effects', "focus")) = 1
          /\ Cardinality(Positions(effects', "DismissEvent")) = 1
          /\ \A d \in Positions(effects', "dispatch") :
             \A f \in Positions(effects', "focus") :
                /\ d = Len(effects')
                /\ effects'[f].arg = previous_focus_handle
                /\ \A c \in Positions(effects', "clear") : c < f
                /\ \A h \in Positions(effects', "hit") : h < f
                /\ \A e \in Positions(effects', "DismissEvent") : f < e /\ e < d
          /\ focused' = previous_focus_handle
          /\ matches' = <<>>
          /\ commands' = <<>>]_vars

\* A confirm has dispatched a catalog action and the focus is back on the editor.
C17_Witness ==
    /\ alive
    /\ focused = "editor"
    /\ effects # <<>>
    /\ effects[1].kind = "confirm"
    /\ effects[Len(effects)].kind = "dispatch"
    /\ effects[Len(effects)].arg = GoToDefinition
    /\ count(hit_counts, humanize_action_name(GoToDefinition.name)) = 1

\* Every Match of ms points into cmds, at the Command that has its string as name.
Resolves(cmds, ms) ==
    \A i \in 1..Len(ms) :
        /\ ms[i].candidate_id \in 0..(Len(cmds) - 1)
        /\ cmds[ms[i].candidate_id + 1].name = ms[i].string

\* C19: after every step each Match's candidate_id is an index into the Command list
\* and the Command there has the Match's string as display name; a confirm dispatches
\* the action of the Command the selected Match points at and counts the hit under
\* the selected Match's string.
C19_MatchesResolveToCommands ==
    [][/\ Resolves(commands', matches')
       /\ ConfirmsMatch
          => LET m == matches[selected_ix + 1]
             IN /\ effects'[Len(effects')] =
                      Effect("dispatch", commands[m.candidate_id + 1].action)
                /\ Positions(effects', "hit") # {}
                /\ \A h \in Positions(effects', "hit") : effects'[h].arg = m.string
                /\ count(hit_counts', m.string) = count(hit_counts, m.string) + 1]_vars

\* A confirm on the spliced-in intercept Match has dispatched the intercept action and
\* counted the hit under the intercept string.
C19_Witness ==
    /\ alive
    /\ effects # <<>>
    /\ effects[1].kind = "confirm"
    /\ effects[1].arg = 0
    /\ effects[Len(effects)] = Effect("dispatch", ToggleLine)
    /\ DOMAIN hit_counts = {<<"e">>}

\* The positions in the project of the worktrees a cwd can be taken from.
AvailableIx ==
    {i \in 1..Len(worktrees) :
        worktrees[i].is_visible /\ worktrees[i].is_local /\ worktrees[i].root_is_dir}

\* The available worktrees that contain the active entry.
ActiveIx ==
    {i \in AvailableIx : active_entry # "none" /\ active_entry \in worktrees[i].entries}

\* This step is a handler that got a runnable and called schedule_runnable.
SchedulesRunnable ==
    /\ r_effects' # r_effects
    /\ r_effects' # <<Effect("Rerun", "none")>>

\* C18: schedule_runnable runs the runnable with its own cwd when it has one; otherwise
\* with no cwd when no worktree is available, with the one available worktree's path,
\* or with the path of the available worktree that contains the active entry; when
\* several are available and none contains the active entry the failure is logged
\* and the runnable is still run, with no cwd.
C18_CwdResolvedOrLoggedNone ==
    [][SchedulesRunnable
       => /\ Cardinality(Positions(r_effects', "exec")) = 1
          /\ \A x \in Positions(r_effects', "exec") :
                LET runnable == runnable_by_id(r_effects'[x].arg.id)
                    cwd == r_effects'[x].arg.cwd
                    failed == runnable.cwd = "none" /\ Cardinality(AvailableIx) > 1
                              /\ ActiveIx = {}
                IN /\ runnable.cwd # "none" => cwd = runnable.cwd
                   /\ (runnable.cwd = "none" /\ AvailableIx = {}) => cwd = "none"
                   /\ (runnable.cwd = "none" /\ Cardinality(AvailableIx) = 1)
                      => \A i \in AvailableIx : cwd = worktrees[i].abs_path
                   /\ (runnable.cwd = "none" /\ Cardinality(AvailableIx) > 1
                         /\ ActiveIx # {})
                      => \E i \in ActiveIx : cwd = worktrees[i].abs_path
                   /\ failed => cwd = "none"
                   /\ failed <=> Positions(r_effects', "log_err") # {}
                   /\ \A l \in Positions(r_effects', "log_err") : l < x
                   /\ runnable.spawns
                      => r_effects'[Len(r_effects')] =
                            Effect("SpawnRunnable", SpawnInTerminal(runnable.id, cwd))]_vars

\* With two available worktrees and no active entry in either, a runnable without a cwd
\* of its own was run with no cwd after the failure was logged, and was spawned.
C18_Witness ==
    /\ Cardinality(AvailableIx) > 1
    /\ ActiveIx = {}
    /\ Len(r_effects) = 4
    /\ r_effects[2].kind = "log_err"
    /\ r_effects[3] = Effect("exec", SpawnInTerminal("plain", "none"))
    /\ r_effects[4].kind = "SpawnRunnable"

\* C20: a handler sets last_scheduled_runnable to a runnable's id exactly when it emits
\* SpawnRunnable for that runnable; when exec returns nothing no event is emitted and
\* last_scheduled_runnable keeps its value; a Rerun with no last scheduled runnable
\* runs and emits nothing and changes nothing.
C20_LastScheduledIffSpawned ==
    [][r_effects' # r_effects
       => /\ \A e \in Positions(r_effects', "SpawnRunnable") :
                last_scheduled_runnable' = r_effects'[e].arg.id
          /\ Positions(r_effects', "SpawnRunnable") = {}
             => last_scheduled_runnable' = last_scheduled_runnable
          /\ \A x \in Positions(r_effects', "exec") :
                ~runnable_by_id(r_effects'[x].arg.id).spawns
                => /\ Positions(r_effects', "SpawnRunnable") = {}
                   /\ last_scheduled_runnable' = last_scheduled_runnable
          /\ (r_effects'[1].kind = "Rerun" /\ last_scheduled_runnable = "none")
             => /\ r_effects' = <<Effect("Rerun", "none")>>
                /\ UNCHANGED <<worktrees, active_entry, last_scheduled_runnable>>
          /\ (r_effects'[1].kind = "Rerun" /\ last_scheduled_runnable # "none")
             => \A x \in Positions(r_effects', "exec") :
                    r_effects'[x].arg.id = last_scheduled_runnable]_vars

\* After a spawn, a runnable whose exec returns nothing was scheduled: no event, and
\* the last scheduled runnable is still the spawned one.
C20_Witness ==
    /\ last_scheduled_runnable = "plain"
    /\ r_effects # <<>>
    /\ r_effects[1] = Effect("schedule", "idle")
    /\ Positions(r_effects, "exec") # {}
    /\ Positions(r_effects, "SpawnRunnable") = {}

====
